---------------------------- MODULE Spec2Model ----------------------------
(***************************************************************************)
(* Voice command dispatch engine (src/app/static/js/voice-assistant.js).   *)
(*                                                                         *)
(* The engine is a single-threaded, event-driven object: every handler     *)
(* (toggle, a recognition callback, a timer, a fetch completion) runs to   *)
(* completion, so each handler is one action.  The speech-to-text          *)
(* capability, the synthesis channel, the network and the timers are the   *)
(* environment; what the engine asks of them is recorded in the state.     *)
(*                                                                         *)
(* Strings are TLA+ strings; Len, \o and SubSeq act on them character by   *)
(* character, so substring containment, trimming and lower-casing are      *)
(* computed as the code computes them.                                     *)
(***************************************************************************)
EXTENDS Integers, Sequences, FiniteSets, TLC

VARIABLES
    recognition,   \* this.recognition is non-null (capability found at construction)
    synthesis,     \* this.synthesis (window.speechSynthesis) exists
    isEnabled,     \* this.isEnabled
    isListening,   \* this.isListening
    ui,            \* what the toggle affordance shows: [cls, icon, status]
    capState,      \* the recognition capability: idle, starting, capturing, stopping
    timers,        \* number of pending restart timers (setTimeout of onend)
    utterances,    \* the synthesis channel's queue of utterance texts
    fetches,       \* pending fetches, each named by the action that issued it
    navTimers,     \* pending delayed navigations / lesson starts
    location,      \* last value assigned to window.location.href ("" if none)
    op,            \* the handler that ran in the last step
    event,         \* the result event handed to handleSpeechResult in the last step
    dispatched,    \* arguments of the processCommand calls of the last step
    invoked,       \* table actions / fallback responses invoked in the last step
    spoken,        \* texts of the speak() calls of the last step, in order
    shown,         \* arguments of the showTranscript calls of the last step
    startReq,      \* recognition.start() in the last step: none, ok, dup (threw)
    stopReq,       \* recognition.stop() in the last step: none, ok, dup
    settled        \* the fetch the network settled in the last step: [who, data]

vars == <<recognition, synthesis, isEnabled, isListening, ui, capState,
          timers, utterances, fetches, navTimers, location, op, event, dispatched,
          invoked, spoken, shown, startReq, stopReq, settled>>

----------------------------------------------------------------------------
(* Bounds of the model. *)

\* pending restart timers the model tracks
MaxTimers == 2
\* results in one recognition event
MaxBatch == 2
\* pending fetches the model tracks
MaxFetches == 1
\* pending delayed navigations the model tracks
MaxNavTimers == 1
\* filler words put before and after a phrase handed to processCommand
MaxFill == 1

----------------------------------------------------------------------------
(* Strings. *)

\* String.prototype.includes
Includes(s, t) ==
    \E i \in 1..(Len(s) - Len(t) + 1) : SubSeq(s, i, i + Len(t) - 1) = t

Upper == "ABCDEFGHIJKLMNOPQRSTUVWXYZ"
Lower == "abcdefghijklmnopqrstuvwxyz"

UpperChars == {SubSeq(Upper, i, i) : i \in 1..Len(Upper)}

\* the lower-case letter of each upper-case letter
LowerOf ==
    [c \in UpperChars |->
        LET i == CHOOSE j \in 1..Len(Upper) : SubSeq(Upper, j, j) = c
        IN  SubSeq(Lower, i, i)]

\* lower-casing of one character
LowerChar(c) == IF c \in UpperChars THEN LowerOf[c] ELSE c

RECURSIVE ToLowerCase(_)
\* String.prototype.toLowerCase
ToLowerCase(s) ==
    IF s = "" THEN ""
    ELSE LowerChar(SubSeq(s, 1, 1)) \o ToLowerCase(SubSeq(s, 2, Len(s)))

IsSpace(c) == c = " "

RECURSIVE TrimStart(_)
TrimStart(s) ==
    IF s # "" /\ IsSpace(SubSeq(s, 1, 1)) THEN TrimStart(SubSeq(s, 2, Len(s))) ELSE s

RECURSIVE TrimEnd(_)
TrimEnd(s) ==
    IF s # "" /\ IsSpace(SubSeq(s, Len(s), Len(s)))
    THEN TrimEnd(SubSeq(s, 1, Len(s) - 1))
    ELSE s

\* String.prototype.trim
Trim(s) == TrimEnd(TrimStart(s))

----------------------------------------------------------------------------
(* The command table, in definition order (initializeCommands). *)

Keys ==
    << "go to dashboard", "open dashboard", "show graph", "open graph",
       "show leaderboard", "open leaderboard",
       "start learning", "next concept", "show progress", "my stats",
       "ai help", "ai recommendation", "study tips",
       "zoom in", "zoom out", "reset graph", "center graph",
       "explain probability", "explain statistics", "explain random variables",
       "help", "what can you do", "stop listening", "mute" >>

KeySet == {Keys[i] : i \in 1..Len(Keys)}

\* Lower-case property names every object literal inherits from Object.prototype:
\* this.commands[name] is truthy for them although they are no table keys.
InheritedProps == {"constructor", "__proto__"}

\* this.commands[command] is truthy
HasTruthyProperty(command) == command \in KeySet \/ command \in InheritedProps

\* a partial-match test that looks for the phrase in the key only
PartialMatchKeyHoldsPhrase(command, key) == Includes(key, command)

\* a partial-match test that looks for the key in the phrase only
PartialMatchOneWay(command, key) == Includes(command, key)

\* the partial-match test of one table entry
PartialMatch(command, key) == Includes(command, key) \/ Includes(key, command)

RECURSIVE ScanFrom(_, _)
\* the loop over Object.entries(this.commands) from entry i on: the index of the
\* first entry that partially matches, 0 if none does
ScanFrom(command, i) ==
    IF i > Len(Keys) THEN 0
    ELSE IF PartialMatch(command, Keys[i]) THEN i
    ELSE ScanFrom(command, i + 1)

FirstPartial(command) == ScanFrom(command, 1)

\* handleUnknownCommand's choice
UnknownKind(command) ==
    IF Includes(command, "concept") \/ Includes(command, "learn") THEN "learn"
    ELSE IF Includes(command, "help") THEN "help"
    ELSE "apology"

\* a processCommand without the exact lookup
ResolveScanOnly(command) ==
    LET i == FirstPartial(command)
    IN  IF i # 0
        THEN [tier |-> "partial", what |-> Keys[i]]
        ELSE [tier |-> "unknown", what |-> UnknownKind(command)]

\* What processCommand does with a phrase: the tier that decides and what it
\* invokes (a table key, an inherited property, or a fallback response).
Resolve(command) ==
    IF HasTruthyProperty(command)
    THEN IF command \in KeySet
         THEN [tier |-> "exact", what |-> command]
         ELSE [tier |-> "inherited", what |-> command]
    ELSE LET i == FirstPartial(command)
         IN  IF i # 0
             THEN [tier |-> "partial", what |-> Keys[i]]
             ELSE [tier |-> "unknown", what |-> UnknownKind(command)]

----------------------------------------------------------------------------
(* Texts the engine speaks. *)

TextUnsupported == "Sorry, voice recognition is not supported in your browser."
TextActivated == "Voice assistant activated. How can I help you learn?"
TextDeactivated == "Voice assistant deactivated."
TextError == "Sorry, I had trouble understanding. Please try again."
TextLearnHint ==
    "I can help you learn! Try saying \"start learning\" or \"next concept\"."
TextApology ==
    "I didn't understand that command. Say \"help\" to see what I can do."
TextHelp ==
    "I can help you navigate and learn! Try saying: \"start learning\", \"show progress\", \"next concept\", \"AI help\", \"show graph\", \"go to dashboard\", or \"show leaderboard\". Say \"what can you do\" for more options."
TextCapabilities ==
    "I can help you with navigation, learning commands, AI assistance, graph controls, and progress tracking. I can also explain concepts, provide study tips, and give you personalized recommendations. Just speak naturally and I'll do my best to help!"
TextLesson == "Starting your next recommended lesson!"
TextFinding == "Finding your next concept to learn!"
TextAllDone == "Great job! You've completed all available concepts."
TextNoNext == "Sorry, I couldn't find your next concept right now."
TextChecking == "Let me check your progress!"
TextNoProgress == "Sorry, I couldn't load your progress right now."
TextStats == "Checking your learning statistics!"
TextNoStats == "Sorry, I couldn't load your stats right now."
TextAI == "Getting AI recommendations for you!"
TextNoAI == "AI recommendations are being prepared. Please try again in a moment."
TextExplain == "Let me explain that concept for you!"
TextOpenGraphZoom == "Please open the knowledge graph first to use zoom commands."
TextResetting == "Resetting the knowledge graph view!"
TextOpenGraphReset == "Please open the knowledge graph to reset the view."
TextCentering == "Centering the knowledge graph!"
TextOpenGraphCenter == "Please open the knowledge graph to center the view."

\* getStudyTips' tips
Tips ==
    << "Take regular breaks every 25 minutes using the Pomodoro technique.",
       "Create visual mind maps to connect related concepts.",
       "Practice active recall by explaining concepts out loud.",
       "Use spaced repetition to review concepts at increasing intervals.",
       "Join study groups to learn collaboratively." >>

----------------------------------------------------------------------------
(* The toggle affordance. *)

\* what createVoiceUI builds
UiCreated == [cls |-> "", icon |-> "fa-microphone", status |-> "Click to activate"]
\* the four states updateVoiceUI derives
UiUnsupported ==
    [cls |-> "disabled", icon |-> "fa-microphone-slash", status |-> "Not supported"]
UiListening == [cls |-> "listening", icon |-> "fa-microphone", status |-> "Listening..."]
UiReady == [cls |-> "", icon |-> "fa-microphone", status |-> "Ready to listen"]
UiDisabled ==
    [cls |-> "", icon |-> "fa-microphone-slash", status |-> "Click to activate"]

----------------------------------------------------------------------------
(* The engine's methods, as functions of the engine state at the call.     *)
(* A state s is a record of the mutable fields and of the step's log.      *)

NoEvent == [results |-> <<>>, resultIndex |-> 0]

\* no fetch settled in the step
NoFetch == [who |-> "none", data |-> [error |-> "none"]]

\* the engine state when a handler starts: the fields as they are, the log empty
Entry ==
    [isEnabled |-> isEnabled, isListening |-> isListening, ui |-> ui,
     capState |-> capState, timers |-> timers, utterances |-> utterances,
     fetches |-> fetches, navTimers |-> navTimers, location |-> location,
     event |-> NoEvent, dispatched |-> <<>>, invoked |-> <<>>, spoken |-> <<>>,
     shown |-> <<>>, startReq |-> "none", stopReq |-> "none", settled |-> NoFetch]

\* a speak that submits without cancelling
speakNoCancel(s, text) ==
    IF synthesis
    THEN [s EXCEPT !.utterances = Append(@, text), !.spoken = Append(@, text)]
    ELSE [s EXCEPT !.spoken = Append(@, text)]

\* speak(text): cancel whatever the channel holds, then submit the utterance
speak(s, text) ==
    IF synthesis
    THEN [s EXCEPT !.utterances = Append(<<>>, text), !.spoken = Append(@, text)]
    ELSE [s EXCEPT !.spoken = Append(@, text)]

updateVoiceUI(s) ==
    [s EXCEPT !.ui = IF ~recognition THEN UiUnsupported
                     ELSE IF s.isListening THEN UiListening
                     ELSE IF s.isEnabled THEN UiReady
                     ELSE UiDisabled]

\* recognition.start(): throws InvalidStateError (caught and logged by the caller)
\* unless the capability is idle
RecognitionStart(s) ==
    IF s.capState = "idle"
    THEN [s EXCEPT !.capState = "starting", !.startReq = "ok"]
    ELSE [s EXCEPT !.startReq = "dup"]

\* recognition.stop(): asks a started capability to end; a second request while
\* the first is unanswered changes nothing
RecognitionStop(s) ==
    IF s.capState \in {"starting", "capturing"}
    THEN [s EXCEPT !.capState = "stopping", !.stopReq = "ok"]
    ELSE [s EXCEPT !.stopReq = "dup"]

\* a startListening that does not look at isEnabled
startListeningAnyIntent(s) ==
    IF recognition /\ ~s.isListening THEN RecognitionStart(s) ELSE s

startListening(s) ==
    IF recognition /\ s.isEnabled /\ ~s.isListening THEN RecognitionStart(s) ELSE s

\* a stopListening that does not look at isListening
stopListeningAlways(s) == IF recognition THEN RecognitionStop(s) ELSE s

stopListening(s) ==
    IF recognition /\ s.isListening THEN RecognitionStop(s) ELSE s

\* an enable that a throwing start request ends: the if-block of startListening
\* without its try/catch
enableAbortsOnThrow(s) ==
    LET s1 == startListening([s EXCEPT !.isEnabled = TRUE])
    IN  IF s1.startReq = "dup" THEN s1
        ELSE updateVoiceUI(speak(s1, TextActivated))

enable(s) ==
    updateVoiceUI(speak(startListening([s EXCEPT !.isEnabled = TRUE]), TextActivated))

\* a disable that leaves the intent as it is
disableKeepsIntent(s) ==
    updateVoiceUI(speak(stopListening(s), TextDeactivated))

disable(s) ==
    updateVoiceUI(speak(stopListening([s EXCEPT !.isEnabled = FALSE]), TextDeactivated))

\* a toggle that does not look for the capability
toggleUnchecked(s) == IF s.isEnabled THEN disable(s) ELSE enable(s)

toggle(s) ==
    IF ~recognition THEN speak(s, TextUnsupported)
    ELSE IF s.isEnabled THEN disable(s)
    ELSE enable(s)

----------------------------------------------------------------------------
(* Command implementations. *)

\* fetch(url): the request is in flight until the network answers
fetch(s, who) == [s EXCEPT !.fetches = Append(@, who)]

\* setTimeout of a delayed navigation or lesson start
setNavTimeout(s, target) == [s EXCEPT !.navTimers = Append(@, target)]

\* window.location.href = target
navigate(s, target) == [s EXCEPT !.location = target]

showHelp(s) == speak(s, TextHelp)

showCapabilities(s) == speak(s, TextCapabilities)

startQuickLesson(s) == setNavTimeout(speak(s, TextLesson), "lesson")

nextConcept(s) == fetch(speak(s, TextFinding), "nextConcept")

showProgress(s) == fetch(speak(s, TextChecking), "showProgress")

showStats(s) == fetch(speak(s, TextStats), "showStats")

getAIHelp(s) == fetch(speak(s, TextAI), "getAIHelp")

getAIRecommendation(s) == getAIHelp(s)

\* tip: the index Math.random picks
getStudyTips(s, tip) == speak(s, "Here's a study tip: " \o Tips[tip])

explainConcept(s, conceptId) ==
    setNavTimeout(speak(s, TextExplain), "/course/concept/" \o conceptId)

\* pathname: window.location.pathname when the command runs
zoomGraph(s, direction, pathname) ==
    IF pathname = "/graph"
    THEN speak(s, "Zooming " \o direction \o " on the knowledge graph!")
    ELSE speak(s, TextOpenGraphZoom)

\* pageFn: the page defines the global function of the same name
resetGraph(s, pageFn, pathname) ==
    IF pathname = "/graph" /\ pageFn THEN speak(s, TextResetting)
    ELSE speak(s, TextOpenGraphReset)

centerGraph(s, pageFn, pathname) ==
    IF pathname = "/graph" /\ pageFn THEN speak(s, TextCentering)
    ELSE speak(s, TextOpenGraphCenter)

\* the closure the command table holds under a key
RunAction(s, key, env) ==
    CASE key \in {"go to dashboard", "open dashboard"} -> navigate(s, "/")
      [] key \in {"show graph", "open graph"} -> navigate(s, "/graph")
      [] key \in {"show leaderboard", "open leaderboard"} -> navigate(s, "/leaderboard")
      [] key = "start learning" -> startQuickLesson(s)
      [] key = "next concept" -> nextConcept(s)
      [] key = "show progress" -> showProgress(s)
      [] key = "my stats" -> showStats(s)
      [] key = "ai help" -> getAIHelp(s)
      [] key = "ai recommendation" -> getAIRecommendation(s)
      [] key = "study tips" -> getStudyTips(s, env.tip)
      [] key = "zoom in" -> zoomGraph(s, "in", env.pathname)
      [] key = "zoom out" -> zoomGraph(s, "out", env.pathname)
      [] key = "reset graph" -> resetGraph(s, env.pageFn, env.pathname)
      [] key = "center graph" -> centerGraph(s, env.pageFn, env.pathname)
      [] key = "explain probability" -> explainConcept(s, "probability")
      [] key = "explain statistics" -> explainConcept(s, "statistics")
      [] key = "explain random variables" -> explainConcept(s, "random_vars")
      [] key = "help" -> showHelp(s)
      [] key = "what can you do" -> showCapabilities(s)
      [] key \in {"stop listening", "mute"} -> disable(s)

handleUnknownCommand(s, command) ==
    LET kind == UnknownKind(command)
        s1 == [s EXCEPT !.invoked = Append(@, [tier |-> "unknown", what |-> kind])]
    IN  CASE kind = "learn" -> speak(s1, TextLearnHint)
          [] kind = "help" -> showHelp(s1)
          [] kind = "apology" -> speak(s1, TextApology)

\* processCommand(command).  An inherited property is called in place of a table
\* action: Object() returns and changes nothing, Object.prototype is not callable
\* and the TypeError ends the handler; either way nothing else happens.
processCommand(s, command, env) ==
    LET s0 == [s EXCEPT !.dispatched = Append(@, command)]
        r == Resolve(command)
    IN  CASE r.tier \in {"exact", "partial"} ->
                RunAction([s0 EXCEPT !.invoked = Append(@, r)], r.what, env)
          [] r.tier = "inherited" -> [s0 EXCEPT !.invoked = Append(@, r)]
          [] r.tier = "unknown" -> handleUnknownCommand(s0, command)

\* showTranscript(text); the 3 s timer that hides the display again only
\* removes a style class
showTranscript(s, text) == [s EXCEPT !.shown = Append(@, text)]

RECURSIVE CollectAllAsFinal(_, _, _, _)
\* a loop that takes every result for final
CollectAllAsFinal(results, i, finalTranscript, interimTranscript) ==
    IF i < Len(results)
    THEN CollectAllAsFinal(results, i + 1,
                           finalTranscript \o results[i + 1].transcript,
                           interimTranscript)
    ELSE <<finalTranscript, interimTranscript>>

RECURSIVE CollectTranscripts(_, _, _, _)
\* the loop of handleSpeechResult over event.results from index i (0-based):
\* <<finalTranscript, interimTranscript>>
CollectTranscripts(results, i, finalTranscript, interimTranscript) ==
    IF i < Len(results)
    THEN IF results[i + 1].isFinal
         THEN CollectTranscripts(results, i + 1,
                                 finalTranscript \o results[i + 1].transcript,
                                 interimTranscript)
         ELSE CollectTranscripts(results, i + 1, finalTranscript,
                                 interimTranscript \o results[i + 1].transcript)
    ELSE <<finalTranscript, interimTranscript>>

\* a handleSpeechResult that displays the final text when there is some
handleSpeechResultShowsFinal(s, e, env) ==
    LET both == CollectTranscripts(e.results, e.resultIndex, "", "")
        finalTranscript == both[1]
        interimTranscript == both[2]
        s1 == showTranscript([s EXCEPT !.event = e],
                             IF finalTranscript # "" THEN finalTranscript
                             ELSE interimTranscript)
    IN  IF finalTranscript # ""
        THEN processCommand(s1, Trim(ToLowerCase(finalTranscript)), env)
        ELSE s1

handleSpeechResult(s, e, env) ==
    LET both == CollectTranscripts(e.results, e.resultIndex, "", "")
        finalTranscript == both[1]
        interimTranscript == both[2]
        s1 == showTranscript([s EXCEPT !.event = e],
                             IF interimTranscript # "" THEN interimTranscript
                             ELSE finalTranscript)
    IN  IF finalTranscript # ""
        THEN processCommand(s1, Trim(ToLowerCase(finalTranscript)), env)
        ELSE s1

----------------------------------------------------------------------------
(* Fetch completions.  A payload is a record of the fields the response     *)
(* holds; a percentage is kept in tenths (627 is 62.7).                     *)

\* JavaScript's (data.field || fallback) for a numeric field: an absent field
\* and a 0 are both falsy
OrNumber(data, field, fallback) ==
    IF field \in DOMAIN data /\ data[field] # 0 THEN data[field] ELSE fallback

\* JavaScript's (data.field || fallback) for a text field
OrText(data, field, fallback) ==
    IF field \in DOMAIN data /\ data[field] # "" THEN data[field] ELSE fallback

\* a rounding that drops the fraction
MathTruncate(tenths) == tenths \div 10

\* Math.round of a number given in tenths: floor(x + 0.5)
MathRound(tenths) == (tenths + 5) \div 10

ProgressMessage(data) ==
    "You've completed " \o ToString(OrNumber(data, "completed", 0))
        \o " concepts with " \o ToString(MathRound(OrNumber(data, "percentage", 0)))
        \o "% overall progress. Keep up the great work!"

StatsMessage(data) ==
    "You're level " \o ToString(OrNumber(data, "level", 1)) \o " with "
        \o ToString(OrNumber(data, "total_points", 0))
        \o " experience points. You have a "
        \o ToString(OrNumber(data, "current_streak", 0)) \o " day learning streak!"

AIMessage(data) ==
    "Based on your " \o OrText(data, "learning_style", "visual")
        \o " learning style, I recommend studying at a "
        \o OrText(data, "optimal_pace", "moderate")
        \o " pace. Your next optimal study time is "
        \o OrText(data, "next_study_time", "now") \o "!"

\* the .then(data => ...) of each fetch-backed action
fetchThen(s, who, data) ==
    CASE who = "nextConcept" ->
            IF "concepts" \in DOMAIN data /\ Len(data.concepts) > 0
            THEN setNavTimeout(
                     speak(s, "Your next concept is " \o data.concepts[1].name
                                  \o ". Opening it now!"),
                     "/course/concept/" \o data.concepts[1].id)
            ELSE speak(s, TextAllDone)
      [] who = "showProgress" -> speak(s, ProgressMessage(data))
      [] who = "showStats" -> speak(s, StatsMessage(data))
      [] who = "getAIHelp" -> speak(s, AIMessage(data))

\* a catch that apologizes and asks the network again
fetchCatchRetry(s, who) ==
    fetch(speak(s, CASE who = "nextConcept" -> TextNoNext
                     [] who = "showProgress" -> TextNoProgress
                     [] who = "showStats" -> TextNoStats
                     [] who = "getAIHelp" -> TextNoAI),
          who)

\* the .catch(() => ...) of each fetch-backed action
fetchCatch(s, who) ==
    CASE who = "nextConcept" -> speak(s, TextNoNext)
      [] who = "showProgress" -> speak(s, TextNoProgress)
      [] who = "showStats" -> speak(s, TextNoStats)
      [] who = "getAIHelp" -> speak(s, TextNoAI)

\* payloads the platform may answer with
Payloads(who) ==
    CASE who = "nextConcept" ->
            { [error |-> "none"], [concepts |-> <<>>],
              [concepts |-> <<[id |-> "c7", name |-> "Bayes Rule"]>>] }
      [] who = "showProgress" ->
            { [error |-> "none"], [completed |-> 5, percentage |-> 627],
              [completed |-> 0, percentage |-> 5] }
      [] who = "showStats" ->
            { [error |-> "none"],
              [level |-> 3, total_points |-> 40, current_streak |-> 2],
              [level |-> 0, total_points |-> 40, current_streak |-> 2] }
      [] who = "getAIHelp" ->
            { [error |-> "none"],
              [learning_style |-> "auditory", optimal_pace |-> "fast",
               next_study_time |-> "9 am"] }

\* the sequence q without its i-th element
Without(q, i) == SubSeq(q, 1, i - 1) \o SubSeq(q, i + 1, Len(q))

----------------------------------------------------------------------------
(* Recognition callbacks (initializeSpeechRecognition). *)

onstart(s) == updateVoiceUI([s EXCEPT !.isListening = TRUE])

\* setTimeout(() => this.startListening(), 1000)
setRestartTimeout(s) == [s EXCEPT !.timers = @ + 1]

\* an onend that restarts whatever the intent
onendAlwaysRestart(s) ==
    setRestartTimeout(updateVoiceUI([s EXCEPT !.isListening = FALSE]))

onend(s) ==
    LET s1 == updateVoiceUI([s EXCEPT !.isListening = FALSE])
    IN  IF s1.isEnabled THEN setRestartTimeout(s1) ELSE s1

onresult(s, e, env) == handleSpeechResult(s, e, env)

\* an onerror that takes the session for ended
onerrorStopsListening(s) == speak([s EXCEPT !.isListening = FALSE], TextError)

\* an onerror that also schedules a restart
onerrorRestarts(s) == setRestartTimeout(speak(s, TextError))

onerror(s) == speak(s, TextError)

----------------------------------------------------------------------------
(* Inputs. *)

\* What Math.random and the page contribute to a command: the tip drawn (read
\* by "study tips" alone), whether the page defines the global function the
\* action looks for (read by "reset graph" and "center graph" alone) and the
\* page's path (read by the four graph commands alone).  An input the resolved
\* action never reads is not enumerated.
EnvsOf(command) ==
    LET r == Resolve(command)
    IN  [tip : IF r.what = "study tips" THEN 1..Len(Tips) ELSE {1},
         pageFn : IF r.what \in {"reset graph", "center graph"}
                  THEN BOOLEAN ELSE {FALSE},
         pathname : IF r.what \in {"zoom in", "zoom out", "reset graph",
                                   "center graph"}
                    THEN {"/", "/graph"} ELSE {"/"}]

\* hypothesis texts the capability delivers, one result an event
Transcripts == {" Help", "Mute ", "Progress", "Learn"}

\* hypothesis texts of the events of several results
BatchTranscripts == {"", " ", " Show ", "Progress", "HELP ", "mute"}

\* result events over the texts T with at most n results, the batch starting at
\* index 0 or, after one result delivered earlier, at index 1
EventsOver(T, n) ==
    { [results |-> r, resultIndex |-> k] :
        r \in UNION {[1..m -> [transcript : T, isFinal : BOOLEAN]] : m \in 0..n},
        k \in {0, 1} }

\* hypothesis texts that name the four fetch-backed actions
FetchTranscripts == {"Next concept", "show progress", "My stats ", "AI help"}

\* the events of one or no result
SingleEvents == EventsOver(Transcripts, 1)

\* the events of up to MaxBatch results
BatchEvents == EventsOver(BatchTranscripts, MaxBatch)

\* the events of one or no result that name a fetch-backed action
FetchEvents == EventsOver(FetchTranscripts, 1)

\* the phrase handleSpeechResult hands to processCommand for an event
CommandOf(e) ==
    Trim(ToLowerCase(CollectTranscripts(e.results, e.resultIndex, "", "")[1]))

----------------------------------------------------------------------------
(* The state machine. *)

Init ==
    /\ recognition \in BOOLEAN
    /\ synthesis \in BOOLEAN
    /\ isEnabled = FALSE
    /\ isListening = FALSE
    /\ ui = UiCreated
    /\ capState = "idle"
    /\ timers = 0
    /\ utterances = <<>>
    /\ fetches = <<>>
    /\ navTimers = <<>>
    /\ location = ""
    /\ op = "construct"
    /\ event = NoEvent
    /\ dispatched = <<>>
    /\ invoked = <<>>
    /\ spoken = <<>>
    /\ shown = <<>>
    /\ startReq = "none"
    /\ stopReq = "none"
    /\ settled = NoFetch

\* the state a handler leaves behind, within the model's bounds
Commit(name, result) ==
    \E s \in {result} :
        /\ s.timers <= MaxTimers
        /\ Len(s.fetches) <= MaxFetches
        /\ Len(s.navTimers) <= MaxNavTimers
        /\ op' = name
        /\ isEnabled' = s.isEnabled
        /\ isListening' = s.isListening
        /\ ui' = s.ui
        /\ capState' = s.capState
        /\ timers' = s.timers
        /\ utterances' = s.utterances
        /\ fetches' = s.fetches
        /\ navTimers' = s.navTimers
        /\ location' = s.location
        /\ event' = s.event
        /\ dispatched' = s.dispatched
        /\ invoked' = s.invoked
        /\ spoken' = s.spoken
        /\ shown' = s.shown
        /\ startReq' = s.startReq
        /\ stopReq' = s.stopReq
        /\ settled' = s.settled
        /\ UNCHANGED <<recognition, synthesis>>

\* a click on the affordance or the keyboard shortcut
Toggle == Commit("toggle", toggle(Entry))

\* the capability answers a start request: capture begins
OnStart ==
    /\ capState = "starting"
    /\ Commit("onstart", onstart([Entry EXCEPT !.capState = "capturing"]))

\* the capability ends the session: after a stop request, on its own (silence,
\* session limit) or because it could not start
OnEnd ==
    /\ capState # "idle"
    /\ Commit("onend", onend([Entry EXCEPT !.capState = "idle"]))

\* the capability reports an error of the running session
OnError ==
    /\ capState # "idle"
    /\ Commit("onerror", onerror(Entry))

\* the capability delivers a result event (one of E) while it captures or
\* winds down
OnResult(E) ==
    /\ capState \in {"capturing", "stopping"}
    /\ \E e \in E :
          /\ e.resultIndex <= Len(e.results)
          /\ \E env \in EnvsOf(CommandOf(e)) :
                Commit("onresult", onresult(Entry, e, env))

\* a restart timer fires
RestartTimer ==
    /\ timers > 0
    /\ Commit("restart", startListening([Entry EXCEPT !.timers = @ - 1]))

\* the network answers a pending fetch with a payload
FetchResolve ==
    \E i \in 1..Len(fetches) : \E data \in Payloads(fetches[i]) :
        Commit("then",
               fetchThen([Entry EXCEPT !.fetches = Without(@, i),
                                       !.settled = [who |-> fetches[i], data |-> data]],
                         fetches[i], data))

\* a pending fetch fails (network error, unreadable body)
FetchReject ==
    \E i \in 1..Len(fetches) :
        Commit("catch",
               fetchCatch([Entry EXCEPT !.fetches = Without(@, i),
                                        !.settled = [who |-> fetches[i],
                                                     data |-> [error |-> "rejected"]]],
                          fetches[i]))

\* a delayed navigation or lesson start fires; the lesson timer calls the page's
\* startQuickLesson if it is defined and navigates otherwise
NavTimer ==
    \E i \in 1..Len(navTimers), pageFn \in BOOLEAN :
        LET s == [Entry EXCEPT !.navTimers = Without(@, i)]
        IN  Commit("navigate",
                   IF navTimers[i] = "lesson"
                   THEN IF pageFn THEN s ELSE navigate(s, "/course/list")
                   ELSE navigate(s, navTimers[i]))

\* the synthesis channel finishes playing the utterance at its head
UtteranceEnd ==
    /\ utterances # <<>>
    /\ Commit("utteranceend", [Entry EXCEPT !.utterances = Tail(@)])

Next ==
    \/ Toggle
    \/ OnStart
    \/ OnEnd
    \/ OnError
    \/ OnResult(SingleEvents)
    \/ RestartTimer
    \/ FetchResolve
    \/ FetchReject
    \/ NavTimer
    \/ UtteranceEnd

Spec == Init /\ [][Next]_vars

\* The first result event of a capture, of several results.
NextResult ==
    \/ Toggle
    \/ OnStart
    \/ (op = "onstart" /\ OnResult(BatchEvents))

SpecResult == Init /\ [][NextResult]_vars

\* Fillers spoken before and after a phrase.
RECURSIVE Fill(_, _)
Fill(words, n) ==
    IF n = 0 THEN {""}
    ELSE {""} \cup {w \o f : w \in words, f \in Fill(words, n - 1)}

Substrings(k) == {SubSeq(k, i, j) : i \in 1..Len(k), j \in 0..Len(k)}

\* phrases that are no part of any key
Strangers ==
    {"constructor", "__proto__", "learner", "concepts", "hello", "helq",
     "what is a concept", "learn to helq", "i want to learn"}

\* the normalized phrases handed to processCommand
Phrases ==
    UNION {Substrings(Keys[i]) : i \in 1..Len(Keys)}
    \cup { Trim(pre \o c \o post) :
             pre \in Fill({"please ", "um "}, MaxFill),
             c \in KeySet \cup Strangers,
             post \in Fill({" now", " please"}, MaxFill) }

\* processCommand called once on a freshly constructed engine
NextMatch ==
    /\ op = "construct"
    /\ \E p \in Phrases : \E env \in EnvsOf(p) :
          Commit("processCommand", processCommand(Entry, p, env))

SpecMatch == Init /\ [][NextMatch]_vars

\* Timers are delivered: a pending restart timer eventually fires.
SpecFair == Spec /\ WF_vars(RestartTimer)

\* the capability answers a stop request: the session ends
StopAnswered == capState = "stopping" /\ OnEnd

\* The capability answers every request it is given (a start request with
\* onstart, a stop request with onend) and timers are delivered.
SpecAnswered ==
    Spec /\ WF_vars(OnStart) /\ WF_vars(StopAnswered) /\ WF_vars(RestartTimer)

\* The fetch-backed commands, spoken while the engine is switched on and off,
\* and the network's answers to them.
NextFetch ==
    \/ Toggle
    \/ OnStart
    \/ OnResult(FetchEvents)
    \/ FetchResolve
    \/ FetchReject
    \/ NavTimer

SpecFetch == Init /\ [][NextFetch]_vars

\* The engine's methods called one by one on window.voiceAssistant by a page
\* script, with the capability answering and the restart timers firing.
Enable == Commit("enable", enable(Entry))

Disable == Commit("disable", disable(Entry))

StartListening == Commit("startListening", startListening(Entry))

StopListening == Commit("stopListening", stopListening(Entry))

NextApi ==
    \/ Enable
    \/ Disable
    \/ StartListening
    \/ StopListening
    \/ OnStart
    \/ OnEnd
    \/ RestartTimer

SpecApi == Init /\ [][NextApi]_vars

----------------------------------------------------------------------------
(* Properties. *)

\* containment of a phrase and a key in either direction
Contains(p, k) == Includes(p, k) \/ Includes(k, p)

\* the first key, in table order, that contains the phrase or is contained in it
FirstContaining(p) ==
    Keys[CHOOSE i \in 1..Len(Keys) :
            /\ Contains(p, Keys[i])
            /\ \A j \in 1..(i - 1) : ~Contains(p, Keys[j])]

\* C1: a phrase equal to a table key invokes exactly that key's action, and no
\* other action or fallback, even when an earlier key contains the phrase:
\* "help" runs the help action (the help text is spoken, nothing is fetched),
\* not the action of the earlier key "ai help".
C1_ExactKeyRunsItsAction ==
    (op = "processCommand" /\ dispatched[1] \in KeySet) =>
        /\ invoked = <<[tier |-> "exact", what |-> dispatched[1]]>>
        /\ dispatched[1] = "help" => (spoken = <<TextHelp>> /\ fetches = <<>>)
        /\ dispatched[1] = "ai help" => (spoken = <<TextAI>> /\ fetches = <<"getAIHelp">>)

C1_Witness ==
    /\ op = "processCommand"
    /\ dispatched = <<"help">>
    /\ invoked = <<[tier |-> "exact", what |-> "help"]>>

\* C2: a phrase that is no table key but contains a key, or is contained in
\* one, invokes exactly one action: that of the first such key in table order;
\* "please go to dashboard now" navigates to "/".
C2_FirstContainingKeyWins ==
    (/\ op = "processCommand"
     /\ dispatched[1] \notin KeySet
     /\ \E i \in 1..Len(Keys) : Contains(dispatched[1], Keys[i])) =>
        /\ invoked = <<[tier |-> "partial", what |-> FirstContaining(dispatched[1])]>>
        /\ dispatched[1] = "please go to dashboard now" =>
              (location = "/" /\ spoken = <<>>)

C2_Witness ==
    /\ op = "processCommand"
    /\ dispatched = <<"please go to dashboard now">>
    /\ invoked = <<[tier |-> "partial", what |-> "go to dashboard"]>>
    /\ location = "/"

\* the fallback the unknown-command heuristic owes a phrase
FallbackKind(p) ==
    IF Includes(p, "concept") \/ Includes(p, "learn") THEN "learn"
    ELSE IF Includes(p, "help") THEN "help"
    ELSE "apology"

FallbackText(kind) ==
    CASE kind = "learn" -> TextLearnHint
      [] kind = "help" -> TextHelp
      [] kind = "apology" -> TextApology

\* C3: a phrase that is no table key and neither contains a key nor is contained
\* in one gets exactly one fallback: the learning suggestion if it contains
\* "concept" or "learn", else the help action if it contains "help", else the
\* apology.
C3_UnmatchedGetsOneFallback ==
    (/\ op = "processCommand"
     /\ dispatched[1] \notin KeySet
     /\ \A i \in 1..Len(Keys) : ~Contains(dispatched[1], Keys[i])) =>
        /\ invoked = <<[tier |-> "unknown", what |-> FallbackKind(dispatched[1])]>>
        /\ spoken = <<FallbackText(FallbackKind(dispatched[1]))>>

\* the results of an event's batch: those from resultIndex on
BatchOf(e) == SubSeq(e.results, e.resultIndex + 1, Len(e.results))

RECURSIVE Joined(_)
\* the texts of a sequence of results, concatenated in order
Joined(rs) == IF rs = <<>> THEN "" ELSE Head(rs).transcript \o Joined(Tail(rs))

IsFinalResult(r) == r.isFinal

\* the final text of an event's batch
FinalText(e) == Joined(SelectSeq(BatchOf(e), IsFinalResult))

\* C4: a result batch reaches processCommand only if it holds final text, and
\* then exactly once, as the lower-cased, trimmed concatenation of its final
\* hypotheses in event order; interim text is no part of the argument.
C4_OnlyFinalTextIsDispatched ==
    op = "onresult" =>
        IF FinalText(event) = ""
        THEN dispatched = <<>> /\ invoked = <<>>
        ELSE dispatched = <<Trim(ToLowerCase(FinalText(event)))>>

C4_Witness ==
    /\ op = "onresult"
    /\ \E i \in 1..Len(event.results) :
          ~event.results[i].isFinal /\ event.results[i].transcript # ""
    /\ Len(event.results) = 2
    /\ event.resultIndex = 0
    /\ dispatched = <<"help">>

\* C5: a toggle that follows an enabling toggle directly leaves enabled false;
\* and a restart timer that fires while enabled is false issues no start
\* request and leaves listening and the capability as they were.
C5_DisabledRestartIsNoOp ==
    [][ /\ (op = "toggle" /\ isEnabled /\ op' = "toggle") => ~isEnabled'
        /\ (op' = "restart" /\ ~isEnabled) =>
              /\ startReq' = "none"
              /\ isListening' = isListening
              /\ capState' = capState
              /\ ~isEnabled' ]_vars

C5_Witness ==
    /\ op = "restart"
    /\ ~isEnabled
    /\ startReq = "none"
    /\ ~isListening

\* C6: an on-end callback sets listening to false and schedules a restart timer
\* exactly when enabled is true; a pending restart timer eventually fires (from
\* a state with a timer pending a restart step follows: at once if the last
\* step was no restart, and after the state is left if it was one), and when it
\* fires startListening issues a start request if enabled is true and listening
\* is false.
C6_EndSchedulesRestart ==
    /\ [][ op' = "onend" =>
              /\ ~isListening'
              /\ timers' = IF isEnabled THEN timers + 1 ELSE timers ]_vars
    /\ (timers > 0 /\ op # "restart") ~> (op = "restart")
    /\ \A n \in 1..MaxTimers :
          (timers = n /\ op = "restart") ~> (timers # n \/ op # "restart")
    /\ [][ (op' = "restart" /\ isEnabled /\ ~isListening) =>
              startReq' \in {"ok", "dup"} ]_vars

C6_Witness ==
    /\ op = "restart"
    /\ isEnabled
    /\ startReq = "ok"
    /\ capState = "starting"

\* C7: the synthesis channel never holds more than one utterance, and after a
\* handler that called speak() it holds the text of the last call alone.
C7_OneUtteranceTheLatest ==
    /\ Len(utterances) <= 1
    /\ (synthesis /\ spoken # <<>>) => utterances = <<spoken[Len(spoken)]>>

C7_Witness ==
    /\ op = "then"
    /\ isEnabled
    /\ utterances = <<ProgressMessage([completed |-> 5, percentage |-> 627])>>

C10_UnsupportedIsPermanent ==
    ~recognition =>
        /\ ~isEnabled /\ ~isListening
        /\ startReq = "none" /\ stopReq = "none" /\ capState = "idle"
        /\ timers = 0
        /\ op = "toggle" => spoken = <<TextUnsupported>>
        /\ (op = "toggle" /\ synthesis) => utterances = <<TextUnsupported>>

C10_Witness ==
    /\ ~recognition
    /\ op = "toggle"
    /\ spoken = <<TextUnsupported>>
    /\ ~isEnabled

\* the apology owed to a rejected fetch of each action
ApologyOf(who) ==
    CASE who = "nextConcept" -> "Sorry, I couldn't find your next concept right now."
      [] who = "showProgress" -> "Sorry, I couldn't load your progress right now."
      [] who = "showStats" -> "Sorry, I couldn't load your stats right now."
      [] who = "getAIHelp" ->
            "AI recommendations are being prepared. Please try again in a moment."

\* C11: a rejected fetch of any of the four fetch-backed actions speaks exactly
\* one apology, that of its action ("Sorry, I couldn't find your next concept
\* right now." for next concept), navigates nowhere and schedules no
\* navigation, issues no fetch again, and leaves enabled and listening as they
\* were.
C11_RejectedFetchApologizesOnce ==
    [][ op' = "catch" =>
          \E i \in 1..Len(fetches) :
              /\ settled'.who = fetches[i]
              /\ spoken' = <<ApologyOf(fetches[i])>>
              /\ fetches' = Without(fetches, i)
              /\ location' = location
              /\ navTimers' = navTimers
              /\ isEnabled' = isEnabled
              /\ isListening' = isListening ]_vars

C11_Witness ==
    /\ op = "catch"
    /\ settled.who = "nextConcept"
    /\ spoken = <<"Sorry, I couldn't find your next concept right now.">>
    /\ fetches = <<>>
    /\ isEnabled /\ isListening

\* the progress report for c completed concepts and r percent
ProgressText(c, r) ==
    "You've completed " \o ToString(c) \o " concepts with " \o ToString(r)
        \o "% overall progress. Keep up the great work!"

\* r is an integer nearest to the number given in tenths
NearestInteger(r, tenths) == 10 * r - 5 <= tenths /\ tenths <= 10 * r + 5

\* C12: the phrase "show progress" is resolved by the exact tier to showProgress,
\* which issues exactly one fetch, to the progress endpoint, and navigates
\* nowhere; when that fetch succeeds with {completed: c, percentage: p} the one
\* text spoken is "You've completed c concepts with r% overall progress. Keep
\* up the great work!", r being p rounded to the nearest integer (5 and 62.7
\* give 5 and 63), and nothing navigates.
C12_ShowProgressReport ==
    /\ [][ (op' = "onresult" /\ dispatched' = <<"show progress">>) =>
              /\ invoked' = <<[tier |-> "exact", what |-> "show progress"]>>
              /\ fetches' = Append(fetches, "showProgress")
              /\ location' = location
              /\ navTimers' = navTimers ]_vars
    /\ [][ (/\ op' = "then"
            /\ settled'.who = "showProgress"
            /\ {"completed", "percentage"} \subseteq DOMAIN settled'.data) =>
              /\ \E r \in 0..100 :
                    /\ NearestInteger(r, settled'.data.percentage)
                    /\ spoken' = <<ProgressText(settled'.data.completed, r)>>
              /\ settled'.data = [completed |-> 5, percentage |-> 627] =>
                    spoken' = <<"You've completed 5 concepts with 63% overall progress. Keep up the great work!">>
              /\ location' = location
              /\ navTimers' = navTimers ]_vars

C12_Witness ==
    /\ op = "then"
    /\ settled = [who |-> "showProgress",
                  data |-> [completed |-> 5, percentage |-> 627]]
    /\ spoken = <<"You've completed 5 concepts with 63% overall progress. Keep up the great work!">>
    /\ location = ""

\* C13: the on-error callback leaves enabled and listening unchanged, speaks one
\* apology, issues no start (or stop) request and schedules no restart timer;
\* a restart timer is scheduled by the on-end callback alone.
C13_ErrorHandlerOnlyApologizes ==
    [][ /\ op' = "onerror" =>
              /\ isEnabled' = isEnabled
              /\ isListening' = isListening
              /\ spoken' = <<"Sorry, I had trouble understanding. Please try again.">>
              /\ startReq' = "none"
              /\ stopReq' = "none"
              /\ capState' = capState
              /\ timers' = timers
        /\ timers' > timers => op' = "onend" ]_vars

C13_Witness ==
    /\ op = "onerror"
    /\ isEnabled /\ isListening
    /\ spoken = <<TextError>>
    /\ timers = 0
    /\ startReq = "none"

\* C14: a start request that fails (the capability was already started) comes
\* from enable() or from the restart timer, and startListening returns to
\* either: listening is unchanged, enabled is what the caller made it (true
\* after enable(), untouched by the timer), and enable() goes on to speak its
\* greeting and to refresh the affordance.
C14_FailedStartIsSwallowed ==
    [][ startReq' = "dup" =>
          /\ op' \in {"toggle", "restart"}
          /\ isListening' = isListening
          /\ op' = "restart" =>
                (isEnabled' = isEnabled /\ spoken' = <<>> /\ ui' = ui)
          /\ op' = "toggle" =>
                /\ isEnabled'
                /\ spoken' = <<"Voice assistant activated. How can I help you learn?">>
                /\ ui' = UiReady ]_vars

C14_Witness ==
    /\ op = "toggle"
    /\ startReq = "dup"
    /\ isEnabled /\ ~isListening
    /\ spoken = <<TextActivated>>
    /\ ui = UiReady

\* C15 as stated: with recognition supported each toggle negates enabled, and
\* whichever callbacks fire between two toggles leave enabled as it is, so the
\* second toggle restores the value the first one found.
C15_TwoTogglesRestore ==
    [][ /\ (op' = "toggle" /\ recognition) => isEnabled' = ~isEnabled
        /\ op' # "toggle" => isEnabled' = isEnabled ]_vars

\* C15: with recognition supported, toggle() calls disable() if enabled is true
\* and enable() otherwise, so each toggle negates enabled; between two toggles
\* enabled changes only when an on-result callback dispatches a "stop
\* listening" or "mute" command, which calls disable(): without such a command
\* in between, two consecutive toggles restore the original value.
C15_TogglesRestoreUnlessMuted ==
    [][ /\ (op' = "toggle" /\ recognition) =>
              /\ isEnabled' = ~isEnabled
              /\ spoken' = <<IF isEnabled THEN TextDeactivated ELSE TextActivated>>
        /\ (op' # "toggle" /\ isEnabled' # isEnabled) =>
              /\ op' = "onresult"
              /\ ~isEnabled'
              /\ \E i \in 1..Len(invoked') :
                    invoked'[i].what \in {"stop listening", "mute"} ]_vars

C15_Witness ==
    /\ op = "toggle"
    /\ recognition
    /\ ~isEnabled /\ isListening
    /\ spoken = <<TextDeactivated>>
    /\ capState = "stopping"

\* the display owed to the engine's state
DerivedUi ==
    IF ~recognition THEN UiUnsupported
    ELSE IF isListening THEN UiListening
    ELSE IF isEnabled THEN UiReady
    ELSE UiDisabled

\* C16: in every reachable state, from construction onward, the affordance
\* shows the one of its four states (unsupported, listening, ready-but-idle,
\* disabled) that recognition, listening and enabled determine.
C16_DisplayIsDerived == ui = DerivedUi

\* C17: enable() called while enabled is already true leaves enabled and
\* listening unchanged and has no effect but the greeting spoken again: no
\* request reaches the capability, no timer is set and the display stays.
C17_EnableIsIdempotent ==
    [][ (op' = "enable" /\ isEnabled) =>
          /\ isEnabled'
          /\ isListening' = isListening
          /\ spoken' = <<"Voice assistant activated. How can I help you learn?">>
          /\ startReq' = "none"
          /\ stopReq' = "none"
          /\ capState' = capState
          /\ timers' = timers
          /\ ui' = ui ]_vars

\* the value of a payload's field, or the default if the payload has no such field
FieldOr(data, field, default) ==
    IF field \in DOMAIN data THEN data[field] ELSE default

\* C18: each fetch-backed report speaks every consumed field the payload holds
\* with the payload's value (the percentage rounded) and every field it lacks
\* with the literal default: level 1, total_points 0, current_streak 0,
\* completed 0, percentage 0, learning_style "visual", optimal_pace "moderate",
\* next_study_time "now".
C18_PresentFieldsSpokenAbsentDefaulted ==
    op = "then" =>
        /\ settled.who = "showStats" =>
              spoken = << "You're level "
                            \o ToString(FieldOr(settled.data, "level", 1))
                            \o " with "
                            \o ToString(FieldOr(settled.data, "total_points", 0))
                            \o " experience points. You have a "
                            \o ToString(FieldOr(settled.data, "current_streak", 0))
                            \o " day learning streak!" >>
        /\ settled.who = "showProgress" =>
              \E r \in 0..100 :
                  /\ NearestInteger(r, FieldOr(settled.data, "percentage", 0))
                  /\ spoken = <<ProgressText(FieldOr(settled.data, "completed", 0), r)>>
        /\ settled.who = "getAIHelp" =>
              spoken = << "Based on your "
                            \o FieldOr(settled.data, "learning_style", "visual")
                            \o " learning style, I recommend studying at a "
                            \o FieldOr(settled.data, "optimal_pace", "moderate")
                            \o " pace. Your next optimal study time is "
                            \o FieldOr(settled.data, "next_study_time", "now")
                            \o "!" >>

\* what a no-op leaves alone: every field of the engine and of its environment
NothingChanges ==
    UNCHANGED <<isEnabled, isListening, ui, capState, timers, utterances,
                fetches, navTimers, location>>

\* C19: startListening() calls the capability's start if and only if a
\* capability exists, enabled is true and listening is false; stopListening()
\* calls its stop if and only if a capability exists and listening is true; in
\* every other case the call changes nothing.
C19_ListeningGuards ==
    [][ /\ op' = "startListening" =>
              /\ stopReq' = "none"
              /\ IF recognition /\ isEnabled /\ ~isListening
                 THEN startReq' \in {"ok", "dup"}
                 ELSE startReq' = "none" /\ NothingChanges
        /\ op' = "stopListening" =>
              /\ startReq' = "none"
              /\ IF recognition /\ isListening
                 THEN stopReq' \in {"ok", "dup"}
                 ELSE stopReq' = "none" /\ NothingChanges ]_vars

C19_Witness ==
    /\ op = "stopListening"
    /\ recognition
    /\ isEnabled /\ ~isListening
    /\ capState = "starting"
    /\ stopReq = "none"

\* C20: after disable(), if enable() is not called again (enabled stays false
\* from some point on) and the capability answers every request it was given,
\* listening eventually becomes false and stays false, whatever callbacks or
\* restart timers were pending at the disable().
C20_DisabledEventuallySilent == <>[](~isEnabled) => <>[](~isListening)

IsInterimResult(r) == ~r.isFinal

\* the interim text of an event's batch
InterimText(e) == Joined(SelectSeq(BatchOf(e), IsInterimResult))

\* C21: for every result batch the transcript display is given, once, the
\* concatenated interim text if it is non-empty and the concatenated final
\* text otherwise; a batch with both shows the interim text while the final
\* text still goes to processCommand.
C21_DisplayPrefersInterim ==
    op = "onresult" =>
        /\ shown = <<IF InterimText(event) # "" THEN InterimText(event)
                     ELSE FinalText(event)>>
        /\ (InterimText(event) # "" /\ FinalText(event) # "") =>
              dispatched = <<Trim(ToLowerCase(FinalText(event)))>>

C21_Witness ==
    /\ op = "onresult"
    /\ InterimText(event) = " Show "
    /\ FinalText(event) = "HELP "
    /\ shown = <<" Show ">>
    /\ dispatched = <<"help">>

\* C22: enabled changes only in a toggle or in a result batch that runs the
\* "stop listening" or "mute" command (the callers of enable() and disable()),
\* and listening changes only in the on-start and on-end callbacks; no other
\* result batch, no error callback, timer or fetch completion changes either.
C22_WritersOfEnabledAndListening ==
    [][ /\ isEnabled' # isEnabled =>
              \/ op' = "toggle"
              \/ /\ op' = "onresult"
                 /\ Len(invoked') = 1
                 /\ invoked'[1].tier \in {"exact", "partial"}
                 /\ invoked'[1].what \in {"stop listening", "mute"}
        /\ isListening' # isListening => op' \in {"onstart", "onend"}
        /\ op' \in {"onerror", "restart", "then", "catch", "navigate",
                     "utteranceend"} =>
              (isEnabled' = isEnabled /\ isListening' = isListening) ]_vars

C22_Witness ==
    /\ op = "onresult"
    /\ invoked = <<[tier |-> "exact", what |-> "mute"]>>
    /\ ~isEnabled /\ isListening
    /\ capState = "stopping"
    /\ stopReq = "ok"

\* C23: processCommand is invoked only when enabled is true: a result batch
\* delivered while the assistant is disabled dispatches nothing.
C23_NoDispatchWhileDisabled ==
    [][ (op' = "onresult" /\ ~isEnabled) =>
            (dispatched' = <<>> /\ invoked' = <<>>) ]_vars

\* C24: a result batch whose final text is empty after lower-casing and
\* trimming invokes no command-table action and navigates nowhere.
C24_EmptyPhraseMatchesNothing ==
    (op = "onresult" /\ Trim(ToLowerCase(FinalText(event))) = "") =>
        /\ \A i \in 1..Len(invoked) : invoked[i].tier = "unknown"
        /\ location = ""
        /\ navTimers = <<>>

\* C25: every call of processCommand has exactly one outcome: one command-table
\* action invoked, or one fallback response (learning suggestion, help action
\* or apology) produced; never none and never more than one.
C25_ExactlyOneOutcome ==
    op = "processCommand" =>
        /\ Len(invoked) = 1
        /\ \/ invoked[1].tier \in {"exact", "partial"} /\ invoked[1].what \in KeySet
           \/ /\ invoked[1].tier = "unknown"
              /\ invoked[1].what \in {"learn", "help", "apology"}
              /\ Len(spoken) = 1

\* C26: every phrase that contains "help" is resolved by the exact or the
\* substring tier, so the fallback never takes its 'contains help' branch: a
\* phrase that reaches the fallback gets the learning suggestion or the
\* apology.
C26_HelpBranchUnreachable ==
    op = "processCommand" =>
        /\ Includes(dispatched[1], "help") =>
              (Len(invoked) = 1 /\ invoked[1].tier \in {"exact", "partial"})
        /\ \A i \in 1..Len(invoked) :
              invoked[i].tier = "unknown" => invoked[i].what \in {"learn", "apology"}

C26_Witness ==
    /\ op = "processCommand"
    /\ dispatched = <<"please help now">>
    /\ invoked = <<[tier |-> "partial", what |-> "help"]>>
    /\ spoken = <<TextHelp>>

\* C27: at most one restart timer is pending at any time.
C27_AtMostOneRestartTimer == timers <= 1

\* C28: a result batch that resolves to "stop listening" or "mute" while
\* listening is true runs disable(): enabled becomes false, stop is called on
\* the capability exactly once, the farewell is spoken; an on-end callback that
\* finds enabled false sets listening to false and schedules no restart; and
\* once the session has ended with enabled false, listening stays false and
\* the capability idle for as long as enabled stays false.
C28_MuteEndsTheSession ==
    [][ /\ (/\ op' = "onresult"
            /\ isListening
            /\ Len(invoked') = 1
            /\ invoked'[1].what \in {"stop listening", "mute"}) =>
              /\ ~isEnabled'
              /\ stopReq' \in {"ok", "dup"}
              /\ startReq' = "none"
              /\ capState' = "stopping"
              /\ spoken' = <<"Voice assistant deactivated.">>
              /\ timers' = timers
        /\ (op' = "onend" /\ ~isEnabled) =>
              (~isListening' /\ timers' = timers /\ capState' = "idle")
        /\ (~isEnabled /\ ~isListening /\ capState = "idle" /\ ~isEnabled') =>
              (~isListening' /\ capState' = "idle" /\ startReq' = "none") ]_vars

C28_Witness ==
    /\ op = "onend"
    /\ ~isEnabled /\ ~isListening
    /\ capState = "idle"
    /\ timers = 0
    /\ utterances = <<TextDeactivated>>

=============================================================================
